---- MODULE Spec2Model ----
(***************************************************************************)
(* A model of the search-query facade (SQXSearchQuery, query.types.ts) and *)
(* of the conditional evaluator (AlQueryEvaluator,                         *)
(* al-conditional-subject.ts).                                             *)
(*                                                                         *)
(* The AST nodes live in a heap: a sequence of node records, a node's      *)
(* identity being its index.  A reference is an index, Null is the null    *)
(* reference.  A method of the facade is a pure operator from the object   *)
(* (the record of its fields) and the heap to the object, the heap, the    *)
(* returned value and the error thrown, and an action that applies it.     *)
(***************************************************************************)
EXTENDS Integers, Sequences, FiniteSets, TLC

VARIABLES
    query,      \* the fields of the SQXSearchQuery instance
    heap,       \* the AST nodes allocated so far
    origin,     \* the factory that built the instance, and the nodes it built
    ret,        \* what the last call returned
    err,        \* the error the last call threw, NoError when it returned
    visited,    \* the callback invocations of the last traverseDescendants
    lastOp,     \* the last call, with its arguments
    prevOp,     \* the method called before it
    evQuery,    \* AlQueryEvaluator.query
    evTarget,   \* the subject of the last test()
    evResult,   \* what the last test() returned, "error" when it threw
    described,  \* what the last getColumnDescriptions() returned
    isAgg,      \* what the last isAggregate() returned
    jsonGiven,  \* the JSON object handed to fromJson
    exported    \* what the last toJson() returned

queryVars == <<query, heap, origin, ret, err, visited, lastOp, prevOp>>
evalVars == <<evQuery, evTarget, evResult>>
columnVars == <<described, isAgg>>
jsonVars == <<jsonGiven, exported>>
vars == <<queryVars, evalVars, columnVars, jsonVars>>

(***************************************************************************)
(* Bounds of the model.                                                    *)
(***************************************************************************)
MaxAlloc == 8       \* the calls allocate at most this many nodes in all
MaxSize == 4        \* a logic tree holds at most this many operator descriptors
MaxColumns == 3     \* a SELECT holds at most this many columns

Props == {"a", "b"}
Values == {"1", "2"}
ValueLists == {<<"1", "2">>}

(***************************************************************************)
(* JSON values.  A string is the sequence of its characters, an array the  *)
(* sequence of its elements, an object the sequence of its own keys with   *)
(* the sequence of their values.                                           *)
(***************************************************************************)
JUndefined == [t |-> "undefined", k |-> <<>>, e |-> <<>>, s |-> <<>>]
JNull == [t |-> "null", k |-> <<>>, e |-> <<>>, s |-> <<>>]
JStr(chars) == [t |-> "string", k |-> <<>>, e |-> <<>>, s |-> chars]
JArr(elems) == [t |-> "array", k |-> <<>>, e |-> elems, s |-> <<>>]
JObj(keys, vals) == [t |-> "object", k |-> keys, e |-> vals, s |-> <<>>]

\* a one-key object
JOp(key, val) == JObj(<<key>>, <<val>>)

\* the indices "0", "1", ... of an array-like of n elements
Indices(n) == [i \in 1..n |-> ToString(i - 1)]

\* Object.keys( v ), v.hasOwnProperty: TypeError on undefined and null
CanHaveKeys(v) == v.t \notin {"undefined", "null"}

ObjectKeys(v) ==
    CASE v.t = "object" -> v.k
      [] v.t = "array"  -> Indices(Len(v.e))
      [] v.t = "string" -> Indices(Len(v.s))
      [] OTHER          -> <<>>

\* v.hasOwnProperty( key )
HasOwnProperty(v, key) ==
    \/ \E i \in 1..Len(ObjectKeys(v)) : ObjectKeys(v)[i] = key
    \/ key = "length" /\ v.t \in {"array", "string"}

\* v[key]
Get(v, key) ==
    IF v.t = "object" /\ \E i \in 1..Len(v.k) : v.k[i] = key
      THEN v.e[CHOOSE i \in 1..Len(v.k) : v.k[i] = key]
      ELSE JUndefined

\* v.length of an array or a string
Length(v) == IF v.t = "array" THEN Len(v.e) ELSE Len(v.s)

\* v[i], i counted from 0, of an array or a string
At(v, i) ==
    IF v.t = "array" /\ i < Len(v.e) THEN v.e[i + 1]
    ELSE IF v.t = "string" /\ i < Len(v.s) THEN JStr(<<v.s[i + 1]>>)
    ELSE JUndefined

\* typeof( v ) === 'object', of a value that is not null
TypeofObject(v) == v.t \in {"object", "array"}

\* a === b: arrays and objects of the query and of the subject are never
\* the same object
StrictEquals(a, b) ==
    \/ a.t = b.t /\ a.t \in {"undefined", "null"}
    \/ a.t = "string" /\ b.t = "string" /\ a.s = b.s

\* !! v
Truthy(v) == ~(v.t \in {"undefined", "null"} \/ (v.t = "string" /\ v.s = <<>>))

\* Array.prototype.includes
ArrayIncludes(arr, v) == \E i \in 1..Len(arr.e) : StrictEquals(arr.e[i], v)

\* String.prototype.includes: a substring test; a searched value that is no
\* string is converted to text that no string of the model holds
StringIncludes(str, v) ==
    /\ v.t = "string"
    /\ \E i \in 0..(Len(str.s) - Len(v.s)) : SubSeq(str.s, i + 1, i + Len(v.s)) = v.s

RECURSIVE Join(_)
\* the text of a string, as a property key
Join(chars) == IF chars = <<>> THEN "" ELSE Head(chars) \o Join(Tail(chars))

(***************************************************************************)
(* The node model (common.types, operator.types, clause.types).            *)
(***************************************************************************)
Null == 0

NoError == "none"

\* no call of the method yet
NoResult == "none"

GroupKinds == {"AND", "OR"}
ComparatorKinds == {"EQUAL", "IN"}

MkNode(kind, items, prop, vals, text) ==
    [kind |-> kind, items |-> items, prop |-> prop, vals |-> vals, text |-> text]

\* new SQXOperatorAnd() / new SQXOperatorOr(): a group with no items
NewGroup(kind) == MkNode(kind, <<>>, Null, <<>>, "")

\* new SQXToken( text ), as a property reference or a scalar value
NewToken(kind, text) == MkNode(kind, <<>>, Null, <<>>, text)

\* instanceof SQXGroupBase
IsGroup(h, n) == h[n].kind \in GroupKinds

\* instanceof SQXOperatorBase: the logical operators and the comparators
IsOperatorBase(h, n) == h[n].kind \in GroupKinds \cup ComparatorKinds

\* whether the node has an `items` array to push onto
HasItems(h, n) == IsGroup(h, n)

\* token.textValue
TextValue(h, n) == h[n].text

\* new SQXComparatorEqual( property, value ): the property reference, the
\* scalar and the comparator are allocated in this order; the comparator is
\* the last node of the result.
NewComparatorEqual(h, property, value) ==
    h \o << NewToken("PROP", property),
            NewToken("SCALAR", value),
            MkNode("EQUAL", <<>>, Len(h) + 1, <<Len(h) + 2>>, "") >>

\* new SQXComparatorIn( property, values )
NewComparatorIn(h, property, values) ==
    h \o << NewToken("PROP", property) >>
      \o [i \in 1..Len(values) |-> NewToken("SCALAR", values[i])]
      \o << MkNode("IN", <<>>, Len(h) + 1,
                   [i \in 1..Len(values) |-> Len(h) + 1 + i], "") >>

\* operator.getDescendants(): the operands, the property first
GetDescendants(h, n) == <<h[n].prop>> \o h[n].vals

(***************************************************************************)
(* The instance.                                                           *)
(***************************************************************************)
NoClause == [present |-> FALSE, condition |-> Null]

\* this.select = null; a SELECT holds its columns
NoSelect == [present |-> FALSE, columns |-> <<>>]

\* the null of the other clause fields; such a clause holds what was parsed
NoOther == [present |-> FALSE, body |-> <<>>]

WhereClause(root) == [present |-> TRUE, condition |-> root]

\* new SQXSearchQuery(): the field initialisers
NewQuery ==
    [ key |-> JNull, name |-> JNull,
      select |-> NoSelect,
      where |-> NoClause,
      order_by |-> NoOther,
      group_by |-> NoOther,
      group_by_permuted |-> NoOther,
      having |-> NoOther,
      limit |-> NoOther,
      time_range |-> NoOther,
      aggregate |-> FALSE ]

\* SQXSearchQuery.empty( name )
Empty(name) == [NewQuery EXCEPT !.name = name]

\* what a call leaves: the object, the heap, the returned value, the error
Outcome(q, h, r, e) == [q |-> q, h |-> h, ret |-> r, err |-> e]

RetNode(n) == [t |-> "node", node |-> n, nodes |-> <<>>]
RetNodes(ns) == [t |-> "nodes", node |-> Null, nodes |-> ns]
RetThis == [t |-> "this", node |-> Null, nodes |-> <<>>]
RetNothing == [t |-> "void", node |-> Null, nodes |-> <<>>]

(***************************************************************************)
(* traverseDescendants                                                     *)
(***************************************************************************)
Visit(n, depth) == [node |-> n, depth |-> depth]

RECURSIVE traverseDescendants(_, _, _)
RECURSIVE TraverseEach(_, _, _)

\* xs.map( x => this.traverseDescendants( callback, x, depth ) ): the
\* callback invocations, in order
TraverseEach(h, xs, depth) ==
    IF xs = <<>> THEN <<>>
    ELSE traverseDescendants(h, Head(xs), depth) \o TraverseEach(h, Tail(xs), depth)

\* traverseDescendants that reports an operator after its descendants
RECURSIVE traverseDescendants_post(_, _, _)
RECURSIVE TraverseEach_post(_, _, _)

TraverseEach_post(h, xs, depth) ==
    IF xs = <<>> THEN <<>>
    ELSE traverseDescendants_post(h, Head(xs), depth)
           \o TraverseEach_post(h, Tail(xs), depth)

traverseDescendants_post(h, from, depth) ==
    IF IsGroup(h, from)
      THEN TraverseEach_post(h, h[from].items, depth + 1)
    ELSE IF IsOperatorBase(h, from)
      THEN TraverseEach_post(h, GetDescendants(h, from), depth + 1) \o <<Visit(from, depth)>>
    ELSE <<Visit(from, depth)>>

\* the sequence of callback( node, depth ) invocations made from `from`
traverseDescendants(h, from, depth) ==
    IF IsGroup(h, from)
      THEN TraverseEach(h, h[from].items, depth + 1)
    ELSE IF IsOperatorBase(h, from)
      THEN <<Visit(from, depth)>> \o TraverseEach(h, GetDescendants(h, from), depth + 1)
    ELSE <<Visit(from, depth)>>

(***************************************************************************)
(* The condition methods.                                                  *)
(***************************************************************************)
\* getConditions without its test of this.where: a new WHERE on every call
getConditions_always(q, h) ==
    Outcome([q EXCEPT !.where = WhereClause(Len(h) + 1)],
            Append(h, NewGroup("AND")),
            RetNode(Len(h) + 1), NoError)

getConditions(q, h) ==
    IF ~q.where.present
      THEN Outcome([q EXCEPT !.where = WhereClause(Len(h) + 1)],
                   Append(h, NewGroup("AND")),
                   RetNode(Len(h) + 1), NoError)
      ELSE Outcome(q, h, RetNode(q.where.condition), NoError)

\* a wrap that replaces a root holding one item by that item instead of
\* pushing the root into the new group
WrapRoot_collapse(q, h, kind, existingCondition) ==
    IF Len(h[existingCondition].items) = 1
      THEN Outcome([q EXCEPT !.where.condition = h[existingCondition].items[1]],
                   h, RetThis, NoError)
      ELSE Outcome([q EXCEPT !.where.condition = Len(h) + 1],
                   Append(h, [NewGroup(kind) EXCEPT !.items = <<existingCondition>>]),
                   RetThis, NoError)

\* this.where.condition = newCondition, newCondition.items holding the old root
WrapRoot(q, h, kind, existingCondition) ==
    Outcome([q EXCEPT !.where.condition = Len(h) + 1],
            Append(h, [NewGroup(kind) EXCEPT !.items = <<existingCondition>>]),
            RetThis, NoError)

\* and() without its instanceof test: it wraps whatever the root is
and_always(q, h) ==
    LET g == getConditions(q, h)
    IN  WrapRoot(g.q, g.h, "AND", g.ret.node)

and(q, h) ==
    LET g == getConditions(q, h)
        existingCondition == g.ret.node
    IN  IF g.h[existingCondition].kind # "AND"
          THEN WrapRoot(g.q, g.h, "AND", existingCondition)
          ELSE Outcome(g.q, g.h, RetThis, NoError)

\* or() that moves the old root's items into the new group instead of the root
or_flat(q, h) ==
    LET g == getConditions(q, h)
        existingCondition == g.ret.node
    IN  IF g.h[existingCondition].kind # "OR"
          THEN Outcome([g.q EXCEPT !.where.condition = Len(g.h) + 1],
                       Append(g.h, [NewGroup("OR") EXCEPT
                                      !.items = g.h[existingCondition].items]),
                       RetThis, NoError)
          ELSE Outcome(g.q, g.h, RetThis, NoError)

or(q, h) ==
    LET g == getConditions(q, h)
        existingCondition == g.ret.node
    IN  IF g.h[existingCondition].kind # "OR"
          THEN WrapRoot(g.q, g.h, "OR", existingCondition)
          ELSE Outcome(g.q, g.h, RetThis, NoError)

\* conditions.items.push( node ), node being the last node of heap h
PushLast(q, h, conditions) ==
    IF HasItems(h, conditions)
      THEN Outcome(q, [h EXCEPT ![conditions].items = Append(@, Len(h))], RetThis, NoError)
      ELSE Outcome(q, h, RetNothing, "TypeError")

\* equals() that puts the new comparator first (unshift for push)
equals_first(q, h, property, value) ==
    LET g == getConditions(q, h)
        conditions == g.ret.node
        h2 == NewComparatorEqual(g.h, property, value)
    IN  IF HasItems(g.h, conditions)
          THEN Outcome(g.q, [h2 EXCEPT ![conditions].items = <<Len(h2)>> \o @],
                       RetThis, NoError)
          ELSE Outcome(g.q, g.h, RetNothing, "TypeError")

equals(q, h, property, value) ==
    LET g == getConditions(q, h)
        conditions == g.ret.node
    IN  IF HasItems(g.h, conditions)
          THEN PushLast(g.q, NewComparatorEqual(g.h, property, value), conditions)
          ELSE Outcome(g.q, g.h, RetNothing, "TypeError")

in(q, h, property, values) ==
    LET g == getConditions(q, h)
        conditions == g.ret.node
    IN  IF HasItems(g.h, conditions)
          THEN PushLast(g.q, NewComparatorIn(g.h, property, values), conditions)
          ELSE Outcome(g.q, g.h, RetNothing, "TypeError")

\* the callback of getPropertyConditions: whether it pushes the token
MatchesProperty(h, token, property) ==
    /\ IsOperatorBase(h, token)
    /\ TextValue(h, h[token].prop) = property

\* getPropertyConditions that looks at the root's own items only
getPropertyConditions_top(q, h, property) ==
    LET g == getConditions(q, h)
        items == g.h[g.ret.node].items
        hits == SelectSeq(items, LAMBDA n : ~IsGroup(g.h, n) /\ MatchesProperty(g.h, n, property))
    IN  Outcome(g.q, g.h, RetNodes(hits), NoError)

getPropertyConditions(q, h, property) ==
    LET g == getConditions(q, h)
        calls == traverseDescendants(g.h, g.ret.node, 0)
        hits == SelectSeq(calls, LAMBDA c : MatchesProperty(g.h, c.node, property))
    IN  Outcome(g.q, g.h, RetNodes([i \in 1..Len(hits) |-> hits[i].node]), NoError)

MultipleConditions == "getPropertyCondition cannot be used on a query with more than one condition for the target property"

getPropertyCondition(q, h, property) ==
    LET g == getPropertyConditions(q, h, property)
        operators == g.ret.nodes
    IN  IF Len(operators) = 0
          THEN Outcome(g.q, g.h, RetNode(Null), NoError)
        ELSE IF Len(operators) > 1
          THEN Outcome(g.q, g.h, RetNothing, MultipleConditions)
        ELSE Outcome(g.q, g.h, RetNode(operators[1]), NoError)

(***************************************************************************)
(* The columns of a SELECT (common.types, operator.types): a property      *)
(* reference, an operator such as count(x), a projection of one of them    *)
(* under an alias, or another token.                                       *)
(***************************************************************************)
Column(cls, textValue, rendered, from, alias) ==
    [cls |-> cls, textValue |-> textValue, rendered |-> rendered,
     origin |-> from, alias |-> alias]

PropertyRef(text) == Column("PropertyRef", text, text, <<>>, "")
Operator(text) == Column("Operator", text, text, <<>>, "")
Scalar(text) == Column("Scalar", text, text, <<>>, "")
ProjectAs(from, alias) ==
    Column("ProjectAs", "AS", from.rendered \o " AS " \o alias, <<from>>, alias)

\* instanceof SQXPropertyRef, SQXOperatorProjectAs, SQXOperatorBase
IsPropertyRef(c) == c.cls = "PropertyRef"
IsProjectAs(c) == c.cls = "ProjectAs"
IsOperatorColumn(c) == c.cls \in {"ProjectAs", "Operator"}

(***************************************************************************)
(* getColumnDescriptions, isAggregate                                      *)
(***************************************************************************)
\* a column descriptor; asField is <<>> for null
Descriptor(name, type, asField, isAggregate) ==
    [name |-> name, type |-> type, asField |-> asField, isAggregate |-> isAggregate]

Skipped == [known |-> FALSE, d |-> Descriptor("", "any", <<>>, FALSE)]
Described(d) == [known |-> TRUE, d |-> d]

\* the loop body with the generic operator test ahead of the PROJECT_AS test
DescribeColumn_generic(column) ==
    IF IsPropertyRef(column)
      THEN Described(Descriptor(column.rendered, "any", <<>>, FALSE))
    ELSE IF IsOperatorColumn(column)
      THEN Described(Descriptor(column.rendered, "number", <<>>, FALSE))
    ELSE Skipped

\* the body of the loop: the descriptor of a column, if it is a known one
DescribeColumn(column) ==
    IF IsPropertyRef(column)
      THEN Described(Descriptor(column.rendered, "any", <<>>, FALSE))
    ELSE IF IsProjectAs(column)
      THEN LET from == column.origin[1]
           IN  IF IsOperatorColumn(from)
                 THEN Described(Descriptor(column.alias, "number", <<from.textValue>>, TRUE))
                 ELSE Described(Descriptor(column.alias, "any", <<from.textValue>>, FALSE))
    ELSE IF IsOperatorColumn(column)
      THEN Described(Descriptor(column.rendered, "number", <<>>, FALSE))
    ELSE Skipped

RECURSIVE ColumnLoop(_, _, _)
\* for ( i ... ): the object and the results after the columns from i on
ColumnLoop(q, i, results) ==
    IF i > Len(q.select.columns) THEN [q |-> q, results |-> results]
    ELSE LET c == DescribeColumn(q.select.columns[i])
         IN  IF ~c.known THEN ColumnLoop(q, i + 1, results)
             ELSE ColumnLoop([q EXCEPT !.aggregate = IF c.d.isAggregate THEN TRUE ELSE @],
                             i + 1, Append(results, c.d))

getColumnDescriptions(q) ==
    IF ~q.select.present THEN [q |-> q, results |-> <<>>]
    ELSE ColumnLoop(q, 1, <<>>)

isAggregate(q) ==
    LET g == getColumnDescriptions(q)
    IN  [q |-> g.q, result |-> g.q.aggregate]

(***************************************************************************)
(* The native JSON format, per clause (parser.types, clause.types).  A     *)
(* condition is { and | or : [ conditions ] }, { "=" : [ property, value ] }*)
(* or { in : [ property, [ values ] ] }, a property { source : name }; a   *)
(* SELECT is the array of its property names; another clause keeps what    *)
(* it was parsed from.                                                     *)
(***************************************************************************)
One == JStr(<<"1">>)
Two == JStr(<<"2">>)

Source(name) == JOp("source", name)

\* the strings of the JSON queries of the model
KnownTexts == {<<"a">>, <<"b">>, <<"1">>, <<"2">>, <<"n", "a", "m", "e">>}

\* the characters of a text
Unjoin(text) == CHOOSE chars \in KnownTexts : Join(chars) = text

Texts(strs) == [i \in 1..Len(strs) |-> Join(strs[i].s)]

RECURSIVE ParseCondition(_, _)
RECURSIVE ParseEach(_, _, _)

\* the conditions js parsed one after the other: the heap, and their roots
ParseEach(h, js, roots) ==
    IF js = <<>> THEN [h |-> h, roots |-> roots]
    ELSE LET r == ParseCondition(h, Head(js))
         IN  ParseEach(r.h, Tail(js), Append(roots, r.root))

\* the condition j parsed: the heap, and the root of the condition
ParseCondition(h, j) ==
    LET key == j.k[1]
        v == j.e[1]
    IN  CASE key \in {"and", "or"} ->
               LET r == ParseEach(h, v.e, <<>>)
                   kind == IF key = "and" THEN "AND" ELSE "OR"
               IN  [h |-> Append(r.h, [NewGroup(kind) EXCEPT !.items = r.roots]),
                    root |-> Len(r.h) + 1]
          [] key = "=" ->
               LET h2 == NewComparatorEqual(h, Join(Get(v.e[1], "source").s), Join(v.e[2].s))
               IN  [h |-> h2, root |-> Len(h2)]
          [] key = "in" ->
               LET h2 == NewComparatorIn(h, Join(Get(v.e[1], "source").s), Texts(v.e[2].e))
               IN  [h |-> h2, root |-> Len(h2)]

RECURSIVE RenderCondition(_, _)
\* condition.toJson()
RenderCondition(h, n) ==
    LET node == h[n]
        property == Source(JStr(Unjoin(TextValue(h, node.prop))))
        value(i) == JStr(Unjoin(TextValue(h, node.vals[i])))
    IN  CASE node.kind = "AND" ->
               JOp("and", JArr([i \in 1..Len(node.items) |-> RenderCondition(h, node.items[i])]))
          [] node.kind = "OR" ->
               JOp("or", JArr([i \in 1..Len(node.items) |-> RenderCondition(h, node.items[i])]))
          [] node.kind = "EQUAL" ->
               JOp("=", JArr(<<property, value(1)>>))
          [] node.kind = "IN" ->
               JOp("in", JArr(<<property, JArr([i \in 1..Len(node.vals) |-> value(i)])>>))

\* the clauses other than SELECT and WHERE
OtherClauses ==
    <<"group_by", "group_by_permuted", "order_by", "limit", "having", "time_range">>

\* parser.fromJson( rawData ): the clauses of the keys rawData has, the
\* clauses it has not being undefined; the heap holds the WHERE condition
ParserFromJson(rawData) ==
    LET where == IF HasOwnProperty(rawData, "where")
                   THEN ParseCondition(<<>>, Get(rawData, "where"))
                   ELSE [h |-> <<>>, root |-> Null]
        other(name) == IF HasOwnProperty(rawData, name)
                         THEN [present |-> TRUE, body |-> <<Get(rawData, name)>>]
                         ELSE NoOther
    IN  [ h |-> where.h,
          select |-> IF HasOwnProperty(rawData, "select")
                       THEN [present |-> TRUE,
                             columns |-> LET names == Texts(Get(rawData, "select").e)
                                         IN  [i \in 1..Len(names) |-> PropertyRef(names[i])]]
                       ELSE NoSelect,
          where |-> IF where.root # Null THEN WhereClause(where.root) ELSE NoClause,
          order_by |-> other("order_by"),
          group_by |-> other("group_by"),
          group_by_permuted |-> other("group_by_permuted"),
          having |-> other("having"),
          limit |-> other("limit"),
          time_range |-> other("time_range") ]

\* clause.toJson(): the fragment of the clause
SelectToJson(select) ==
    JOp("select", JArr([i \in 1..Len(select.columns) |->
                           JStr(Unjoin(select.columns[i].textValue))]))

WhereToJson(h, where) == JOp("where", RenderCondition(h, where.condition))

OtherToJson(name, clause) == JOp(name, clause.body[1])

(***************************************************************************)
(* fromJson, toJson                                                        *)
(***************************************************************************)
\* raw[key] = val
SetKey(raw, key, val) ==
    IF \E i \in 1..Len(raw.k) : raw.k[i] = key
      THEN JObj(raw.k, [i \in 1..Len(raw.k) |-> IF raw.k[i] = key THEN val ELSE raw.e[i]])
      ELSE JObj(Append(raw.k, key), Append(raw.e, val))

RECURSIVE ObjectAssign(_, _, _)
\* Object.assign( accumulator, fragment ), from the i-th key of the fragment on
ObjectAssign(accumulator, fragment, i) ==
    IF i > Len(fragment.k) THEN accumulator
    ELSE ObjectAssign(SetKey(accumulator, fragment.k[i], fragment.e[i]), fragment, i + 1)

RECURSIVE Reduce(_, _)
\* fragments.reduce( ( accumulator, el ) => Object.assign( accumulator, el ), raw )
Reduce(fragments, raw) ==
    IF fragments = <<>> THEN raw
    ELSE Reduce(Tail(fragments), ObjectAssign(raw, Head(fragments), 1))

\* the instance fromJson returns, and the heap of its nodes
fromJson(rawData) ==
    LET parsed == ParserFromJson(rawData)
    IN  [ q |-> [ key |-> IF HasOwnProperty(rawData, "key") THEN Get(rawData, "key") ELSE JNull,
                  name |-> IF HasOwnProperty(rawData, "name") THEN Get(rawData, "name") ELSE JNull,
                  select |-> parsed.select,
                  where |-> parsed.where,
                  order_by |-> parsed.order_by,
                  group_by |-> parsed.group_by,
                  group_by_permuted |-> parsed.group_by_permuted,
                  having |-> parsed.having,
                  limit |-> parsed.limit,
                  time_range |-> parsed.time_range,
                  aggregate |-> FALSE ],
          h |-> parsed.h ]

toJson(q, h) ==
    LET clauses ==
            << [present |-> q.select.present, name |-> "select"],
               [present |-> q.group_by.present, name |-> "group_by"],
               [present |-> q.group_by_permuted.present, name |-> "group_by_permuted"],
               [present |-> q.order_by.present, name |-> "order_by"],
               [present |-> q.limit.present, name |-> "limit"],
               [present |-> q.having.present, name |-> "having"],
               [present |-> q.where.present, name |-> "where"],
               [present |-> q.time_range.present, name |-> "time_range"] >>
        kept == SelectSeq(clauses, LAMBDA el : el.present)
        fragment(name) ==
            CASE name = "select" -> SelectToJson(q.select)
              [] name = "where" -> WhereToJson(h, q.where)
              [] OTHER -> OtherToJson(name, q[name])
        properties == Reduce([i \in 1..Len(kept) |-> fragment(kept[i].name)], JObj(<<>>, <<>>))
        withKey == IF Truthy(q.key) THEN SetKey(properties, "key", q.key) ELSE properties
    IN  IF Truthy(q.name) THEN SetKey(withKey, "name", q.name) ELSE withKey

(***************************************************************************)
(* The states a factory leaves.                                            *)
(***************************************************************************)
\* fromParser on "WHERE a = 1": the root is a single comparator
ParsedComparator ==
    LET h == NewComparatorEqual(<<>>, "a", "1")
    IN  [q |-> [NewQuery EXCEPT !.where = WhereClause(Len(h))], h |-> h]

\* fromParser on "WHERE a = 1 AND ( b = 2 OR c = 3 )"
ParsedTree ==
    LET h1 == NewComparatorEqual(<<>>, "a", "1")
        h2 == NewComparatorEqual(h1, "b", "2")
        h3 == NewComparatorEqual(h2, "c", "3")
        h4 == Append(h3, [NewGroup("OR") EXCEPT !.items = <<Len(h2), Len(h3)>>])
        h5 == Append(h4, [NewGroup("AND") EXCEPT !.items = <<Len(h1), Len(h4)>>])
    IN  [q |-> [NewQuery EXCEPT !.where = WhereClause(Len(h5))], h |-> h5]

Built ==
    { [factory |-> "empty", q |-> Empty(JStr(<<"u", "n", "t", "i", "t", "l", "e", "d">>)), h |-> <<>>],
      [factory |-> "fromParser", q |-> ParsedComparator.q, h |-> ParsedComparator.h],
      [factory |-> "fromParser", q |-> ParsedTree.q, h |-> ParsedTree.h] }

NoOp == [op |-> "new", property |-> "", values |-> <<>>, from |-> Null]

Call(op, property, values, from) ==
    [op |-> op, property |-> property, values |-> values, from |-> from]

QueryInit ==
    /\ \E b \in Built :
          /\ query = b.q
          /\ heap = b.h
          /\ origin = [factory |-> b.factory, nodes |-> Len(b.h)]
    /\ ret = RetNothing
    /\ err = NoError
    /\ visited = <<>>
    /\ lastOp = NoOp
    /\ prevOp = "new"

(***************************************************************************)
(* The bounds: a call is made while its result stays within them.          *)
(***************************************************************************)
WithinBounds(o) == Len(o.h) <= origin.nodes + MaxAlloc

(***************************************************************************)
(* The calls.                                                              *)
(***************************************************************************)
Returns(o, call, callbacks) ==
    /\ WithinBounds(o)
    /\ query' = o.q
    /\ heap' = o.h
    /\ ret' = o.ret
    /\ err' = o.err
    /\ visited' = callbacks
    /\ lastOp' = call
    /\ prevOp' = lastOp.op
    /\ UNCHANGED origin
    /\ UNCHANGED <<evalVars, columnVars, jsonVars>>

GetConditions ==
    Returns(getConditions(query, heap), Call("getConditions", "", <<>>, Null), <<>>)

And ==
    Returns(and(query, heap), Call("and", "", <<>>, Null), <<>>)

Or ==
    Returns(or(query, heap), Call("or", "", <<>>, Null), <<>>)

Equals ==
    \E p \in Props, v \in Values :
        Returns(equals(query, heap, p, v), Call("equals", p, <<v>>, Null), <<>>)

In ==
    \E p \in Props, vs \in ValueLists :
        Returns(in(query, heap, p, vs), Call("in", p, vs, Null), <<>>)

GetPropertyConditions ==
    \E p \in Props :
        Returns(getPropertyConditions(query, heap, p),
                Call("getPropertyConditions", p, <<>>, Null), <<>>)

GetPropertyCondition ==
    \E p \in Props :
        Returns(getPropertyCondition(query, heap, p),
                Call("getPropertyCondition", p, <<>>, Null), <<>>)

\* the nodes a traversal is started from: the root condition and its items
TraversalStarts(q, h) ==
    IF q.where.present
      THEN {q.where.condition}
             \cup {h[q.where.condition].items[i] : i \in 1..Len(h[q.where.condition].items)}
      ELSE {}

\* traverseDescendants( callback, from ) with the default depth
TraverseDescendants ==
    \E from \in TraversalStarts(query, heap) :
        /\ Returns(Outcome(query, heap, RetNothing, NoError),
                   Call("traverseDescendants", "", <<>>, from),
                   traverseDescendants(heap, from, 0))

Next ==
    \/ GetConditions
    \/ And
    \/ Or
    \/ Equals
    \/ In
    \/ GetPropertyConditions
    \/ GetPropertyCondition
    \/ TraverseDescendants

(***************************************************************************)
(* AlQueryEvaluator                                                        *)
(***************************************************************************)
True == "true"
False == "false"
Error == "error"

Bool(b) == IF b THEN True ELSE False
Negate(r) == IF r = Error THEN Error ELSE Bool(r = False)

\* target.getPropertyValue( property, ns ): a subject is a function from
\* <<ns, property>> to the value; what it does not hold is undefined
GetPropertyValue(target, id, ns) ==
    IF <<ns, id>> \in DOMAIN target THEN target[<<ns, id>>] ELSE JUndefined

DefaultNs == JStr(<<"default">>)

\* normalizeProperty: the reference, or the error it throws
normalizeProperty(descriptor) ==
    IF ~CanHaveKeys(descriptor) \/ ~HasOwnProperty(descriptor, "source")
      THEN [ok |-> FALSE, ns |-> JUndefined, id |-> JUndefined]
    ELSE LET propertyRef == Get(descriptor, "source")
         IN  IF /\ TypeofObject(propertyRef)
                /\ HasOwnProperty(propertyRef, "ns")
                /\ HasOwnProperty(propertyRef, "id")
               THEN [ok |-> TRUE, ns |-> Get(propertyRef, "ns"), id |-> Get(propertyRef, "id")]
             ELSE IF propertyRef.t = "string"
               THEN [ok |-> TRUE, ns |-> DefaultNs, id |-> propertyRef]
             ELSE [ok |-> FALSE, ns |-> JUndefined, id |-> JUndefined]

\* op.hasOwnProperty("length") && op.length === n
HasLength(op, n) == CanHaveKeys(op) /\ HasOwnProperty(op, "length") /\ Length(op) = n

\* op.hasOwnProperty("length") && op.length > 0
NonEmpty(op) == CanHaveKeys(op) /\ HasOwnProperty(op, "length") /\ Length(op) > 0

evaluateEquals(op, target) ==
    IF ~HasLength(op, 2) THEN Error
    ELSE LET property == normalizeProperty(At(op, 0))
         IN  IF ~property.ok THEN Error
             ELSE Bool(StrictEquals(GetPropertyValue(target, property.id, property.ns),
                                    At(op, 1)))

evaluateNotEquals(op, target) ==
    IF ~HasLength(op, 2) THEN Error
    ELSE LET property == normalizeProperty(At(op, 0))
         IN  IF ~property.ok THEN Error
             ELSE Bool(~StrictEquals(GetPropertyValue(target, property.id, property.ns),
                                     At(op, 1)))

evaluateIn(op, target) ==
    IF ~HasLength(op, 2) THEN Error
    ELSE LET property == normalizeProperty(At(op, 0))
             testValues == At(op, 1)
         IN  IF ~property.ok THEN Error
             ELSE LET actualValue == GetPropertyValue(target, property.id, property.ns)
                  IN  IF ~CanHaveKeys(testValues) \/ ~HasOwnProperty(testValues, "length")
                        THEN Error
                      ELSE IF testValues.t = "array"
                        THEN Bool(ArrayIncludes(testValues, actualValue))
                      ELSE Bool(StringIncludes(testValues, actualValue))

\* one step of the reduce of contains_any / contains_all
Contains(actualValues, value) ==
    IF actualValues.t = "array"
      THEN ArrayIncludes(actualValues, value)
      ELSE /\ value.t = "string"
           /\ HasOwnProperty(actualValues, Join(value.s))
           /\ Truthy(Get(actualValues, Join(value.s)))

evaluateContainsAny(op, target) ==
    IF ~HasLength(op, 2) THEN Error
    ELSE LET property == normalizeProperty(At(op, 0))
             testValues == At(op, 1)
         IN  IF ~property.ok THEN Error
             ELSE LET actualValues == GetPropertyValue(target, property.id, property.ns)
                  IN  IF ~TypeofObject(actualValues) THEN Error
                      ELSE IF ~CanHaveKeys(testValues) \/ ~HasOwnProperty(testValues, "length")
                        THEN Error
                      ELSE IF testValues.t # "array" THEN Error   \* no reduce
                      ELSE Bool(\E i \in 1..Len(testValues.e) :
                                   Contains(actualValues, testValues.e[i]))

evaluateContainsAll(op, target) ==
    IF ~HasLength(op, 2) THEN Error
    ELSE LET property == normalizeProperty(At(op, 0))
             testValues == At(op, 1)
         IN  IF ~property.ok THEN Error
             ELSE LET actualValues == GetPropertyValue(target, property.id, property.ns)
                  IN  IF ~TypeofObject(actualValues) THEN Error
                      ELSE IF ~CanHaveKeys(testValues) \/ ~HasOwnProperty(testValues, "length")
                        THEN Error
                      ELSE IF testValues.t # "array" THEN Error   \* no reduce
                      ELSE Bool(\A i \in 1..Len(testValues.e) :
                                   Contains(actualValues, testValues.e[i]))

RECURSIVE dispatchOperator(_, _)
RECURSIVE AndLoop(_, _, _, _)
RECURSIVE OrLoop(_, _, _, _)

\* for ( i ... ) result = result && this.dispatchOperator( op[i], target ):
\* the operand is not evaluated once the result is false
AndLoop(op, target, i, result) ==
    IF i >= Length(op) THEN result
    ELSE IF result = False THEN AndLoop(op, target, i + 1, False)
    ELSE LET r == dispatchOperator(At(op, i), target)
         IN  IF r = Error THEN Error ELSE AndLoop(op, target, i + 1, r)

\* for ( i ... ) result = result || this.dispatchOperator( op[i], target )
OrLoop(op, target, i, result) ==
    IF i >= Length(op) THEN result
    ELSE IF result = True THEN OrLoop(op, target, i + 1, True)
    ELSE LET r == dispatchOperator(At(op, i), target)
         IN  IF r = Error THEN Error ELSE OrLoop(op, target, i + 1, r)

\* evaluateOr starting from true
evaluateOr_true(op, target) ==
    IF ~NonEmpty(op) THEN Error ELSE OrLoop(op, target, 0, True)

evaluateAnd(op, target) ==
    IF ~NonEmpty(op) THEN Error ELSE AndLoop(op, target, 0, True)

evaluateOr(op, target) ==
    IF ~NonEmpty(op) THEN Error ELSE OrLoop(op, target, 0, False)

evaluateNot(op, target) == Negate(dispatchOperator(op, target))

dispatchOperator(op, target) ==
    IF ~CanHaveKeys(op) THEN Error
    ELSE LET operatorKeys == ObjectKeys(op)
         IN  IF Len(operatorKeys) # 1 THEN Error
             ELSE LET operatorKey == operatorKeys[1]
                      operatorValue == IF op.t = "object" THEN op.e[1] ELSE At(op, 0)
                  IN  CASE operatorKey = "and" -> evaluateAnd(operatorValue, target)
                        [] operatorKey = "or"  -> evaluateOr(operatorValue, target)
                        [] operatorKey = "="   -> evaluateEquals(operatorValue, target)
                        [] operatorKey = "!="  -> evaluateNotEquals(operatorValue, target)
                        [] operatorKey = "in"  -> evaluateIn(operatorValue, target)
                        [] operatorKey = "not" -> evaluateNot(operatorValue, target)
                        [] operatorKey = "contains_all" -> evaluateContainsAll(operatorValue, target)
                        [] operatorKey = "contains_any" -> evaluateContainsAny(operatorValue, target)
                        [] OTHER -> Error

\* test( target, query ): the query kept, and the result
test(this, target, q) ==
    LET kept == IF Truthy(q) THEN q ELSE this
    IN  [query |-> kept, result |-> dispatchOperator(kept, target)]

(***************************************************************************)
(* The logic trees and the subjects of the model.                          *)
(***************************************************************************)
Status == JStr(<<"s", "t", "a", "t", "u", "s">>)
Tag == JStr(<<"t", "a", "g">>)
Roles == JStr(<<"r", "o", "l", "e", "s">>)
Open == JStr(<<"o", "p", "e", "n">>)
Closed == JStr(<<"c", "l", "o", "s", "e", "d">>)
A == JStr(<<"a">>)
B == JStr(<<"b">>)
C == JStr(<<"c">>)

SourceNs(ns, name) == JOp("source", JObj(<<"ns", "id">>, <<ns, name>>))

Subject(status, tag, roles) ==
    (<<DefaultNs, Status>> :> status) @@ (<<DefaultNs, Tag>> :> tag)
        @@ (<<DefaultNs, Roles>> :> roles)

Subjects ==
    { Subject(Open, B, JArr(<<A>>)),
      Subject(Open, C, JObj(<<"a", "b">>, <<A, JStr(<<>>)>>)),
      Subject(Closed, B, JArr(<<>>)) }

\* descriptors as the format has them
GoodLeaves ==
    { JOp("=", JArr(<<Source(Status), Open>>)),
      JOp("!=", JArr(<<SourceNs(DefaultNs, Tag), B>>)),
      JOp("in", JArr(<<Source(Tag), JArr(<<A, B>>)>>)),
      JOp("contains_any", JArr(<<Source(Roles), JArr(<<A, B>>)>>)),
      JOp("contains_all", JArr(<<Source(Roles), JArr(<<A, B>>)>>)) }

\* descriptors the format does not have: arity 1, an unknown key, two keys,
\* no key, an operand that is no array, a test list that is no array, an
\* empty `and` list
BadLeaves ==
    { JOp("=", JArr(<<Source(Status)>>)),
      JOp("matches", JArr(<<Source(Status), Open>>)),
      JObj(<<"=", "in">>, <<JArr(<<Source(Status), Open>>), JArr(<<Source(Tag), JArr(<<A>>)>>)>>),
      JObj(<<>>, <<>>),
      JOp("!=", JOp("source", Status)),
      JOp("in", JArr(<<Source(Tag), JStr(<<"a", "b">>)>>)),
      JOp("and", JArr(<<>>)) }

Leaves == GoodLeaves \cup BadLeaves

RECURSIVE TreesOfSize(_)
\* the trees of exactly n descriptors: a leaf, a `not`, an `and` / `or` of
\* one operand or of two
TreesOfSize(n) ==
    IF n = 1 THEN Leaves
    ELSE LET one == TreesOfSize(n - 1)
             two == UNION { {<<x, y>> : x \in TreesOfSize(i), y \in TreesOfSize(n - 1 - i)}
                              : i \in 1..(n - 2) }
         IN  {JOp("not", x) : x \in one}
               \cup {JOp(key, JArr(<<x>>)) : key \in {"and", "or"}, x \in one}
               \cup {JOp(key, JArr(xs)) : key \in {"and", "or"}, xs \in two}

Trees == UNION {TreesOfSize(n) : n \in 1..MaxSize}

EvalInit ==
    /\ evQuery \in Trees \cup {JUndefined}
    /\ evTarget = JUndefined
    /\ evResult = NoResult

QueryIdle ==
    /\ query = NewQuery
    /\ heap = <<>>
    /\ origin = [factory |-> "new", nodes |-> 0]
    /\ ret = RetNothing
    /\ err = NoError
    /\ visited = <<>>
    /\ lastOp = NoOp
    /\ prevOp = "new"

EvalIdle ==
    /\ evQuery = JUndefined
    /\ evTarget = JUndefined
    /\ evResult = NoResult

ColumnsIdle ==
    /\ described = <<>>
    /\ isAgg = NoResult

JsonIdle ==
    /\ jsonGiven = JObj(<<>>, <<>>)
    /\ exported = JUndefined

Init == QueryInit /\ EvalIdle /\ ColumnsIdle /\ JsonIdle

InitEval == QueryIdle /\ EvalInit /\ ColumnsIdle /\ JsonIdle

Tested(r, target) ==
    /\ evQuery' = r.query
    /\ evResult' = r.result
    /\ evTarget' = target
    /\ UNCHANGED <<queryVars, columnVars, jsonVars>>

\* test( target )
Test ==
    \E target \in Subjects : Tested(test(evQuery, target, JUndefined), target)

\* and[ =(status, "open"), in(tag, ["a", "b"]) ]
Example ==
    JOp("and", JArr(<< JOp("=", JArr(<<Source(Status), Open>>)),
                       JOp("in", JArr(<<Source(Tag), JArr(<<A, B>>)>>)) >>))

\* the queries handed to test() itself
Replacements ==
    { Example,
      JOp("=", JArr(<<Source(Status)>>)),
      JOp("not", JOp("!=", JArr(<<SourceNs(DefaultNs, Tag), B>>))) }

\* test( target, query )
TestQuery ==
    \E target \in Subjects, q \in Replacements : Tested(test(evQuery, target, q), target)

NextEval ==
    \/ Test
    \/ TestQuery

SpecEval == InitEval /\ [][NextEval]_vars

Spec == Init /\ [][Next]_vars

(***************************************************************************)
(* The SELECT lists of the model, and the calls on them.                   *)
(***************************************************************************)
ColumnSamples ==
    { PropertyRef("name"),
      Operator("count(x)"),
      ProjectAs(Operator("count(x)"), "total"),
      ProjectAs(PropertyRef("name"), "label"),
      Scalar("1") }

RECURSIVE ColumnLists(_)
\* the lists of exactly n columns
ColumnLists(n) ==
    IF n = 0 THEN {<<>>}
    ELSE {Append(cs, c) : cs \in ColumnLists(n - 1), c \in ColumnSamples}

Selects ==
    {NoSelect} \cup
    {[present |-> TRUE, columns |-> cs] : cs \in UNION {ColumnLists(n) : n \in 0..MaxColumns}}

InitColumns ==
    /\ \E sel \in Selects : query = [NewQuery EXCEPT !.select = sel]
    /\ heap = <<>>
    /\ origin = [factory |-> "fromParser", nodes |-> 0]
    /\ ret = RetNothing
    /\ err = NoError
    /\ visited = <<>>
    /\ lastOp = NoOp
    /\ prevOp = "new"
    /\ EvalIdle /\ ColumnsIdle /\ JsonIdle

GetColumnDescriptions ==
    LET g == getColumnDescriptions(query)
    IN  /\ query' = g.q
        /\ described' = g.results
        /\ isAgg' = NoResult
        /\ lastOp' = Call("getColumnDescriptions", "", <<>>, Null)
        /\ prevOp' = lastOp.op
        /\ UNCHANGED <<heap, origin, ret, err, visited, evalVars, jsonVars>>

IsAggregate ==
    LET g == isAggregate(query)
    IN  /\ query' = g.q
        /\ isAgg' = Bool(g.result)
        /\ described' = <<>>
        /\ lastOp' = Call("isAggregate", "", <<>>, Null)
        /\ prevOp' = lastOp.op
        /\ UNCHANGED <<heap, origin, ret, err, visited, evalVars, jsonVars>>

NextColumns ==
    \/ GetColumnDescriptions
    \/ IsAggregate

SpecColumns == InitColumns /\ [][NextColumns]_vars


(***************************************************************************)
(* The JSON queries of the model, and the calls on them.                   *)
(***************************************************************************)
Absent == {JUndefined}

\* what each key of a JSON query may hold; undefined for a key it has not
RawOptions ==
    << [key |-> "key", vals |-> Absent \cup {JNull, JStr(<<>>), JStr(<<"a">>)}],
       [key |-> "name", vals |-> Absent \cup {JStr(<<>>), JStr(<<"n", "a", "m", "e">>)}],
       [key |-> "select", vals |-> Absent \cup {JArr(<<JStr(<<"a">>), JStr(<<"n", "a", "m", "e">>)>>)}],
       [key |-> "where", vals |-> Absent \cup
            { JOp("=", JArr(<<Source(A), One>>)),
              JOp("and", JArr(<< JOp("=", JArr(<<Source(A), One>>)),
                                 JOp("or", JArr(<< JOp("in", JArr(<<Source(B), JArr(<<One, Two>>)>>)) >>)) >>)) }],
       [key |-> "order_by", vals |-> Absent \cup {JArr(<<JOp("asc", A)>>)}],
       [key |-> "group_by", vals |-> Absent \cup {JArr(<<A>>)}],
       [key |-> "group_by_permuted", vals |-> Absent \cup {JArr(<<A, B>>)}],
       [key |-> "having", vals |-> Absent \cup {JOp("=", JArr(<<Source(A), One>>))}],
       [key |-> "limit", vals |-> Absent \cup {One}],
       [key |-> "time_range", vals |-> Absent \cup {JArr(<<One, Two>>)}] >>

RECURSIVE RawQueries(_)
\* the JSON objects over the first n keys
RawQueries(n) ==
    IF n = 0 THEN {JObj(<<>>, <<>>)}
    ELSE { IF v = JUndefined THEN raw ELSE SetKey(raw, RawOptions[n].key, v) :
             raw \in RawQueries(n - 1), v \in RawOptions[n].vals }

InitJson ==
    /\ QueryIdle
    /\ EvalIdle
    /\ ColumnsIdle
    /\ jsonGiven \in RawQueries(Len(RawOptions))
    /\ exported = JUndefined

\* query = SQXSearchQuery.fromJson( rawData )
FromJson ==
    LET r == fromJson(jsonGiven)
    IN  /\ query' = r.q
        /\ heap' = r.h
        /\ origin' = [factory |-> "fromJson", nodes |-> Len(r.h)]
        /\ lastOp' = Call("fromJson", "", <<>>, Null)
        /\ prevOp' = lastOp.op
        /\ exported' = JUndefined
        /\ UNCHANGED <<ret, err, visited, jsonGiven, evalVars, columnVars>>

\* query.toJson()
ToJson ==
    /\ exported' = toJson(query, heap)
    /\ lastOp' = Call("toJson", "", <<>>, Null)
    /\ prevOp' = lastOp.op
    /\ UNCHANGED <<query, heap, origin, ret, err, visited, jsonGiven, evalVars, columnVars>>

NextJson ==
    \/ FromJson
    \/ ToJson

SpecJson == InitJson /\ [][NextJson]_vars

(***************************************************************************)
(* The tree below a node, read off the heap without traversing it.         *)
(***************************************************************************)
Range(xs) == {xs[i] : i \in 1..Len(xs)}

Children(h, n) ==
    Range(h[n].items) \cup (IF h[n].prop = Null THEN {} ELSE {h[n].prop}) \cup Range(h[n].vals)

RECURSIVE Below(_, _)
RECURSIVE LevelOf(_, _, _, _)

\* the nodes of `level` and all the nodes under them
Below(h, level) ==
    IF level = {} THEN {}
    ELSE level \cup Below(h, UNION {Children(h, m) : m \in level})

\* how many levels under the nodes of `level` node n is; -1 when it is not
LevelOf(h, level, k, n) ==
    IF level = {} THEN -1
    ELSE IF n \in level THEN k
    ELSE LevelOf(h, UNION {Children(h, m) : m \in level}, k + 1, n)

Root == query.where.condition

\* a call that changed neither the object nor a node
Untouched == query' = query /\ heap' = heap

\* the nodes that existed before the step are as they were
OldNodesKept == \A n \in DOMAIN heap : heap'[n] = heap[n]

(***************************************************************************)
(* C1.  getConditions() never returns an absent condition: it returns the  *)
(* WHERE root; on a query with no WHERE it creates one whose root is a new *)
(* AND group with no items; with a WHERE present, so also on a second call *)
(* in a row, it returns the same root and changes nothing.                 *)
(***************************************************************************)
C1_GetConditions ==
    [][ lastOp'.op = "getConditions" =>
          /\ err' = NoError
          /\ ret'.t = "node"
          /\ ret'.node # Null
          /\ query'.where.present
          /\ ret'.node = query'.where.condition
          /\ ~query.where.present =>
                /\ ret'.node \notin DOMAIN heap
                /\ heap'[ret'.node].kind = "AND"
                /\ heap'[ret'.node].items = <<>>
                /\ OldNodesKept
                /\ Len(heap') = Len(heap) + 1
          /\ query.where.present => Untouched /\ ret'.node = Root
          /\ lastOp.op = "getConditions" => Untouched /\ ret' = ret
      ]_vars

\* a second getConditions() in a row on a query built empty
C1_Witness ==
    /\ origin.factory = "empty"
    /\ prevOp = "getConditions"
    /\ lastOp.op = "getConditions"
    /\ heap[ret.node].kind = "AND"
    /\ heap[ret.node].items = <<>>

(***************************************************************************)
(* C2.  and() / or() on a root that is not of the requested kind puts a    *)
(* new group of that kind in its place whose only item is the old root;    *)
(* every node under the old root is kept, one level deeper.                *)
(***************************************************************************)
GroupMethod(kind) == IF kind = "AND" THEN "and" ELSE "or"

C2_KindChangeWraps ==
    [][ \A kind \in GroupKinds :
          ( /\ lastOp'.op = GroupMethod(kind)
            /\ query.where.present
            /\ heap[Root].kind # kind ) =>
              LET old == Root
                  new == query'.where.condition
              IN  /\ new \notin DOMAIN heap
                  /\ Len(heap') = Len(heap) + 1
                  /\ heap'[new].kind = kind
                  /\ heap'[new].items = <<old>>
                  /\ OldNodesKept
                  /\ \A n \in Below(heap, {old}) :
                        LevelOf(heap', {new}, 0, n) = LevelOf(heap, {old}, 0, n) + 1
      ]_vars

\* and() then or(): the OR root holds the AND, which holds a comparator
C2_Witness ==
    /\ prevOp = "and"
    /\ lastOp.op = "or"
    /\ heap[Root].kind = "OR"
    /\ Len(heap[Root].items) = 1
    /\ heap[heap[Root].items[1]].kind = "AND"
    /\ heap[heap[Root].items[1]].items # <<>>

(***************************************************************************)
(* C3.  and() on an AND root and or() on an OR root change nothing; so a   *)
(* second and() (or()) in a row leaves the tree as the first left it.      *)
(***************************************************************************)
C3_SameKindNoOp ==
    [][ \A kind \in GroupKinds :
          /\ ( /\ lastOp'.op = GroupMethod(kind)
               /\ query.where.present
               /\ heap[Root].kind = kind ) => Untouched
          /\ ( /\ lastOp'.op = GroupMethod(kind)
               /\ lastOp.op = GroupMethod(kind) ) => Untouched
      ]_vars

\* and() twice in a row on a root that holds conditions
C3_Witness ==
    /\ prevOp = "and"
    /\ lastOp.op = "and"
    /\ heap[Root].kind = "AND"
    /\ heap[Root].items # <<>>

(***************************************************************************)
(* C4.  equals(p, v) / in(p, vs) on a query with no WHERE, or whose root   *)
(* is a group, appends one new comparator on p with those values as the    *)
(* last item of the root group; the root stays the root, its other items   *)
(* and every other node and field stay as they were.  On a query with no   *)
(* WHERE the root is an AND whose only item is that comparator.            *)
(***************************************************************************)
ComparatorOf(method) == IF method = "equals" THEN "EQUAL" ELSE "IN"

C4_AppendsComparator ==
    [][ ( /\ lastOp'.op \in {"equals", "in"}
          /\ query.where.present => IsGroup(heap, Root) ) =>
            LET root == query'.where.condition
                items == heap'[root].items
                new == items[Len(items)]
            IN  /\ err' = NoError
                /\ ret' = RetThis
                /\ query'.where.present
                /\ items # <<>>
                /\ new \notin DOMAIN heap
                /\ heap'[new].kind = ComparatorOf(lastOp'.op)
                /\ TextValue(heap', heap'[new].prop) = lastOp'.property
                /\ [i \in 1..Len(heap'[new].vals) |-> TextValue(heap', heap'[new].vals[i])]
                     = lastOp'.values
                /\ [query' EXCEPT !.where = query.where] = query
                /\ query.where.present =>
                      /\ root = Root
                      /\ heap'[root] = [heap[root] EXCEPT !.items = Append(@, new)]
                      /\ \A n \in DOMAIN heap \ {root} : heap'[n] = heap[n]
                /\ ~query.where.present =>
                      /\ root \notin DOMAIN heap
                      /\ heap'[root].kind = "AND"
                      /\ items = <<new>>
                      /\ OldNodesKept
      ]_vars

\* equals( "a", "1" ) as the first call on a query built empty
C4_Witness ==
    /\ origin.factory = "empty"
    /\ prevOp = "new"
    /\ lastOp.op = "equals"
    /\ lastOp.property = "a"
    /\ lastOp.values = <<"1">>
    /\ heap[Root].kind = "AND"
    /\ Len(heap[Root].items) = 1
    /\ heap[heap[Root].items[1]].kind = "EQUAL"

(***************************************************************************)
(* C5.  getPropertyCondition(p) returns null when no operator under the    *)
(* WHERE root tests p, that operator when exactly one does, and throws the *)
(* multiple-conditions error when more than one does, at whatever depth.   *)
(***************************************************************************)
\* the operators under the root that test property p
Testing(h, root, p) ==
    {n \in Below(h, {root}) :
        h[n].kind \in ComparatorKinds /\ TextValue(h, h[n].prop) = p}

OnParsedTree ==
    /\ Len(heap) >= Len(ParsedTree.h)
    /\ SubSeq(heap, 1, Len(ParsedTree.h)) = ParsedTree.h
    /\ lastOp.from = ParsedTree.q.where.condition

C6_TraversalOrder ==
    lastOp.op = "traverseDescendants" =>
        LET from == lastOp.from
            at(n) == CHOOSE i \in 1..Len(visited) : visited[i].node = n
        IN  /\ \A i \in 1..Len(visited) : ~IsGroup(heap, visited[i].node)
            /\ {visited[i].node : i \in 1..Len(visited)}
                 = {n \in Below(heap, {from}) : ~IsGroup(heap, n)}
            /\ \A i, j \in 1..Len(visited) :
                  visited[i].node = visited[j].node => i = j
            /\ \A i \in 1..Len(visited) :
                  visited[i].depth = LevelOf(heap, {from}, 0, visited[i].node)
            /\ \A i \in 1..Len(visited) :
                  IsOperatorBase(heap, visited[i].node) =>
                     \A c \in Children(heap, visited[i].node) :
                        /\ at(c) > i
                        /\ visited[at(c)].depth = visited[i].depth + 1
            /\ \A g \in Below(heap, {from}) :
                  IsGroup(heap, g) =>
                     \A x, y \in 1..Len(heap[g].items) :
                        x < y =>
                          \A a \in Below(heap, {heap[g].items[x]}),
                             b \in Below(heap, {heap[g].items[y]}) :
                                (~IsGroup(heap, a) /\ ~IsGroup(heap, b)) => at(a) < at(b)
            /\ OnParsedTree =>
                  SelectSeq(visited, LAMBDA c : IsOperatorBase(heap, c.node))
                    = << Visit(3, 1), Visit(6, 2), Visit(9, 2) >>

\* the traversal of the parsed tree from its root
C6_Witness ==
    /\ lastOp.op = "traverseDescendants"
    /\ OnParsedTree
    /\ Len(visited) = 9

(***************************************************************************)
(* The format of a logic tree, and what a tree of the format means.        *)
(***************************************************************************)
\* a property descriptor: { source: "id" } or { source: { ns, id } }
ValidProperty(d) ==
    /\ d.t = "object"
    /\ d.k = <<"source">>
    /\ \/ d.e[1].t = "string"
       \/ d.e[1].t = "object" /\ {"ns", "id"} \subseteq Range(d.e[1].k)

Comparisons == {"=", "!="}
ListTests == {"in", "contains_all", "contains_any"}

RECURSIVE WellFormed(_)
\* every descriptor of the tree has one key, of the vocabulary, and the
\* operand that key takes
WellFormed(tree) ==
    /\ tree.t = "object"
    /\ Len(tree.k) = 1
    /\ LET key == tree.k[1]
           v == tree.e[1]
       IN  CASE key \in {"and", "or"} ->
                  /\ v.t = "array"
                  /\ v.e # <<>>
                  /\ \A i \in 1..Len(v.e) : WellFormed(v.e[i])
             [] key = "not" -> WellFormed(v)
             [] key \in Comparisons ->
                  v.t = "array" /\ Len(v.e) = 2 /\ ValidProperty(v.e[1])
             [] key \in ListTests ->
                  /\ v.t = "array"
                  /\ Len(v.e) = 2
                  /\ ValidProperty(v.e[1])
                  /\ v.e[2].t = "array"
             [] OTHER -> FALSE

RECURSIVE Plain(_)
\* a well-formed tree of and, or, not, =, != and in over scalar test values
Plain(tree) ==
    /\ WellFormed(tree)
    /\ LET key == tree.k[1]
           v == tree.e[1]
       IN  CASE key \in {"and", "or"} -> \A i \in 1..Len(v.e) : Plain(v.e[i])
             [] key = "not" -> Plain(v)
             [] key \in Comparisons -> v.e[2].t = "string"
             [] key = "in" -> \A i \in 1..Len(v.e[2].e) : v.e[2].e[i].t = "string"
             [] OTHER -> FALSE

\* the subject's value of the property a valid descriptor names
ValueOf(target, d) ==
    LET ref == IF d.e[1].t = "string"
                 THEN <<DefaultNs, d.e[1]>>
                 ELSE <<Get(d.e[1], "ns"), Get(d.e[1], "id")>>
    IN  IF ref \in DOMAIN target THEN target[ref] ELSE JUndefined

RECURSIVE Holds(_, _)
\* the truth value of a plain tree
Holds(tree, target) ==
    LET key == tree.k[1]
        v == tree.e[1]
    IN  CASE key = "and" -> \A i \in 1..Len(v.e) : Holds(v.e[i], target)
          [] key = "or"  -> \E i \in 1..Len(v.e) : Holds(v.e[i], target)
          [] key = "not" -> ~Holds(v, target)
          [] key = "="   -> ValueOf(target, v.e[1]) = v.e[2]
          [] key = "!="  -> ValueOf(target, v.e[1]) # v.e[2]
          [] key = "in"  -> ValueOf(target, v.e[1]) \in Range(v.e[2].e)

(***************************************************************************)
(* C7.  test() on a tree that holds a malformed descriptor anywhere throws *)
(* instead of returning a boolean, whatever the subject.                   *)
(***************************************************************************)
C7_StrictFailFast ==
    (evResult # NoResult /\ ~WellFormed(evQuery)) => evResult = Error

(***************************************************************************)
(* C8.  test() on a well-formed tree of and, or, not, =, != and in (over   *)
(* scalar test values) returns the truth value of the tree; so             *)
(* and[=(status,"open"), in(tag,["a","b"])] is true of status "open",      *)
(* tag "b" and false of tag "c".                                           *)
(***************************************************************************)
C8_TruthValue ==
    (evResult # NoResult /\ Plain(evQuery)) =>
        /\ evResult = Bool(Holds(evQuery, evTarget))
        /\ evQuery = Example =>
              /\ (evTarget[<<DefaultNs, Status>>] = Open /\ evTarget[<<DefaultNs, Tag>>] = B)
                    => evResult = True
              /\ evTarget[<<DefaultNs, Tag>>] = C => evResult = False

\* the example tree, found true of status "open", tag "b"
C8_Witness ==
    /\ evQuery = Example
    /\ evResult = True
    /\ evTarget # JUndefined
    /\ evTarget[<<DefaultNs, Tag>>] = B

(***************************************************************************)
(* C9.  getColumnDescriptions() gives one descriptor per known column, in  *)
(* SELECT order: a bare property has type "any"; a PROJECT_AS has the      *)
(* alias as name and the origin's text as asField, and has type "number"   *)
(* and isAggregate exactly when its origin is an operator; a bare operator *)
(* has type "number".  isAggregate() is true of a SELECT that holds an     *)
(* aggregate projection.                                                   *)
(***************************************************************************)
Known(c) == c.cls \in {"PropertyRef", "ProjectAs", "Operator"}

AggregateProjection(c) == c.cls = "ProjectAs" /\ c.origin[1].cls \in {"ProjectAs", "Operator"}

\* SELECT count(x) AS total, name
ExampleSelect == << ProjectAs(Operator("count(x)"), "total"), PropertyRef("name") >>

C9_ColumnDescriptions ==
    LET columns == IF query.select.present THEN query.select.columns ELSE <<>>
        known == SelectSeq(columns, Known)
    IN  /\ lastOp.op = "getColumnDescriptions" =>
              /\ Len(described) = Len(known)
              /\ \A i \in 1..Len(known) :
                    LET c == known[i]
                        d == described[i]
                    IN  /\ c.cls = "PropertyRef" =>
                              d.name = c.rendered /\ d.type = "any" /\ ~d.isAggregate
                        /\ c.cls = "ProjectAs" =>
                              /\ d.name = c.alias
                              /\ d.asField = <<c.origin[1].textValue>>
                              /\ d.type = (IF AggregateProjection(c) THEN "number" ELSE "any")
                              /\ d.isAggregate = AggregateProjection(c)
                        /\ c.cls = "Operator" =>
                              d.name = c.rendered /\ d.type = "number"
              /\ columns = ExampleSelect =>
                    described = << Descriptor("total", "number", <<"count(x)">>, TRUE),
                                   Descriptor("name", "any", <<>>, FALSE) >>
        /\ (lastOp.op = "isAggregate" /\ \E i \in 1..Len(columns) : AggregateProjection(columns[i]))
              => isAgg = True /\ query.aggregate

\* isAggregate() on SELECT count(x) AS total, name, after its columns were described
C9_Witness ==
    /\ query.select.present
    /\ query.select.columns = ExampleSelect
    /\ prevOp = "getColumnDescriptions"
    /\ lastOp.op = "isAggregate"
    /\ isAgg = True

(***************************************************************************)
(* C10.  toJson( fromJson( J ) ) holds every clause and every key / name   *)
(* that J holds, with an equal value, holds no clause and no key / name    *)
(* that J does not hold, and holds no null.                                *)
(***************************************************************************)
Recognised ==
    {"key", "name", "select", "where", "order_by", "group_by", "group_by_permuted",
     "having", "limit", "time_range"}

\* J holds the key, with a value that is not null
Holding(raw, key) == HasOwnProperty(raw, key) /\ Get(raw, key) # JNull

C10_RoundTrip ==
    (lastOp.op = "toJson" /\ prevOp = "fromJson") =>
        /\ \A key \in Recognised :
              /\ Holding(jsonGiven, key) =>
                    HasOwnProperty(exported, key) /\ Get(exported, key) = Get(jsonGiven, key)
              /\ ~HasOwnProperty(jsonGiven, key) => ~HasOwnProperty(exported, key)
        /\ \A i \in 1..Len(exported.e) : exported.e[i] # JNull

(***************************************************************************)
(* C11.  On a query built by empty() (no WHERE), after any sequence of     *)
(* getConditions(), and(), or(), equals(), in() and getPropertyConditions()*)
(* calls the WHERE root, once there is one, is an AND or an OR group; so   *)
(* no call fails with the TypeError of pushing onto a root without items,  *)
(* and equals() / in() return the query.                                   *)
(***************************************************************************)
FromEmpty == origin.factory = "empty"

C11_RootIsGroup ==
    FromEmpty =>
        /\ query.where.present =>
              /\ Root \in DOMAIN heap
              /\ heap[Root].kind \in {"AND", "OR"}
        /\ err # "TypeError"
        /\ lastOp.op \in {"equals", "in"} =>
              /\ err = NoError
              /\ ret = RetThis
              /\ query.where.present
              /\ heap[Root].items # <<>>

\* in() right after or() on the query from empty(): the root is the OR that
\* wrapped the lazily created AND, and it took the new comparator
C11_Witness ==
    /\ FromEmpty
    /\ lastOp.op = "in"
    /\ prevOp = "or"
    /\ err = NoError
    /\ heap[Root].kind = "OR"
    /\ Len(heap[Root].items) = 2
    /\ heap[heap[Root].items[1]].kind = "AND"
    /\ heap[heap[Root].items[2]].kind = "IN"

====
